---- MODULE Spec2Model ----
(***************************************************************************)
(* Model of the audio core of the manga story teller: the decision         *)
(* compiler AudioIntelligence.process_audio_intent                         *)
(* (audio/audio_intelligence.py), the camera timing it is fed              *)
(* (video/animation_engine.py) and the renderer mix_scene_audio            *)
(* (video/composer.py); the scene loop of run_pipeline                     *)
(* (pipeline/main_pipeline.py) that drives them after analyze_scene        *)
(* (intelligence/comic_brain.py); and run_with_gpu_guard                   *)
(* (infra/gpu_utils.py).                                                   *)
(*                                                                         *)
(* Units.  Durations and timestamps are integers in milliseconds (the code *)
(* uses float seconds: 2.0 s = 2000, 0.3 * d = (3 * d) \div 10,            *)
(* len / 12.5 s = 80 * len).  Confidence is an integer in hundredths       *)
(* (0.6 = 60).  A file path is the sequence of its components, a text is a *)
(* sequence of characters, an optional timestamp t is <<t>>, and Python's  *)
(* None is the empty sequence.  The file system is the set of paths for    *)
(* which os.path.exists answers True.  An optional dict d is <<d>>, an     *)
(* exception message is the sequence of its words.                         *)
(***************************************************************************)
EXTENDS Integers, Sequences, FiniteSets, TLC

VARIABLES pc, fs, args, plan, narration_file, mix,
          scenes, scene_index, scene_analysis, scene_clips, raised,
          func, attempt, invocations, cache_clears, result

audio_vars == <<fs, args, plan, narration_file, mix>>

pipeline_vars == <<scenes, scene_index, scene_analysis, scene_clips>>

guard_vars == <<func, attempt, invocations, cache_clears, result>>

vars == <<pc, audio_vars, pipeline_vars, raised, guard_vars>>

----------------------------------------------------------------------------
(* Bounds of the model *)

MaxNarrationChars == 4

MaxScenes == 2

MaxCalls == 4

----------------------------------------------------------------------------
(* Python helpers *)

None == << >>

EmptyDict == [k \in {} |-> None]

\* str.lower and str.upper on the strings of the model
LowerTable ==
    [Luffy |-> "luffy", STATIC |-> "static", ZOOM_IN |-> "zoom_in",
     ZOOM_OUT |-> "zoom_out", PAN_LEFT |-> "pan_left",
     PAN_RIGHT |-> "pan_right", SHAKE |-> "shake",
     SHAKE_AGRESSIVE |-> "shake_agressive", ZOOM_IN_FAST |-> "zoom_in_fast",
     CUDA |-> "cuda", Out |-> "out", OUT |-> "out", OF |-> "of",
     MEMORY |-> "memory"]

lower(s) == IF s \in DOMAIN LowerTable THEN LowerTable[s] ELSE s

UpperTable == [fight |-> "FIGHT", calm |-> "CALM", static |-> "STATIC"]

upper(s) == IF s \in DOMAIN UpperTable THEN UpperTable[s] ELSE s

Get(d, k, default) == IF k \in DOMAIN d THEN d[k] ELSE default

Min(a, b) == IF a <= b THEN a ELSE b

Max(a, b) == IF a >= b THEN a ELSE b

exists(path, files) == path \in files

----------------------------------------------------------------------------
(* Asset mapping (ENUM -> file path) *)

BGM_MAP ==
    [calm   |-> <<"assets", "bgm", "calm_loop.wav">>,
     tense  |-> <<"assets", "bgm", "tense_loop.wav">>,
     heroic |-> <<"assets", "bgm", "heroic_loop.wav">>,
     sad    |-> <<"assets", "bgm", "sad_loop.wav">>,
     none   |-> None]

SFX_MAP ==
    [punch     |-> <<"assets", "sfx", "punch.wav">>,
     slash     |-> <<"assets", "sfx", "slash.wav">>,
     explosion |-> <<"assets", "sfx", "explosion.wav">>,
     hit       |-> <<"assets", "sfx", "hit.wav">>,
     none      |-> None]

AMBIENCE_MAP ==
    [wind  |-> <<"assets", "ambience", "wind.wav">>,
     sea   |-> <<"assets", "ambience", "sea.wav">>,
     crowd |-> <<"assets", "ambience", "crowd.wav">>,
     room  |-> <<"assets", "ambience", "room.wav">>,
     none  |-> None]

STINGER_MAP ==
    [intro |-> <<"assets", "stingers", "intro.wav">>,
     outro |-> <<"assets", "stingers", "outro.wav">>]

ConfidenceThreshold == 60

SilenceCapMs == 2000

AttackPath(character, attack_name, ext) ==
    <<"assets", "characters", character, "attacks", attack_name, ext>>

----------------------------------------------------------------------------
(* Timing rules *)

\* the rule with the fight camera mode spelled as in the documentation
calculate_attack_timing_Respelled(camera_action, dialogue_duration) ==
    IF camera_action \in {"shake", "zoom_in_fast", "shake_aggressive"}
    THEN 0
    ELSE dialogue_duration \div 2

calculate_attack_timing(camera_action, dialogue_duration) ==
    IF camera_action \in {"shake", "zoom_in_fast", "shake_agressive"}
    THEN 0
    ELSE dialogue_duration \div 2

\* the fast zoom treated like the zoom: impact at the zoom peak
_calculate_sfx_timestamp_FastZoomPeak(camera_action, camera_duration) ==
    IF camera_action = "shake" THEN 0
    ELSE IF camera_action \in {"zoom_in", "zoom_in_fast"}
    THEN camera_duration \div 2
    ELSE 0

_calculate_sfx_timestamp(camera_action, camera_duration) ==
    IF camera_action = "shake" THEN 0
    ELSE IF camera_action = "zoom_in" THEN camera_duration \div 2
    ELSE IF camera_action \in {"zoom_out", "pan_left", "pan_right"} THEN 0
    ELSE 0

\* emotion -> camera_mode
EMOTION_TO_CAMERA ==
    [CALM |-> "STATIC", HAPPY |-> "ZOOM_IN", ANGRY |-> "SHAKE",
     SAD |-> "PAN_LEFT", SURPRISED |-> "ZOOM_OUT",
     FIGHT |-> "SHAKE_AGRESSIVE", DRAMATIC |-> "ZOOM_IN_FAST",
     UNKNOWN |-> "STATIC"]

CameraIntensity ==
    [STATIC |-> "low", ZOOM_IN |-> "medium", ZOOM_OUT |-> "medium",
     PAN_LEFT |-> "low", PAN_RIGHT |-> "low", SHAKE |-> "high",
     SHAKE_AGRESSIVE |-> "high", ZOOM_IN_FAST |-> "high"]

get_camera_timing(emotion, duration) ==
    LET camera_mode == Get(EMOTION_TO_CAMERA, upper(emotion), "STATIC")
    IN  [action    |-> lower(camera_mode),
         duration  |-> duration,
         intensity |-> Get(CameraIntensity, camera_mode, "low")]

resolve_attack_audio(character, attack_name, files) ==
    IF exists(AttackPath(character, attack_name, ".wav"), files)
    THEN AttackPath(character, attack_name, ".wav")
    ELSE IF exists(AttackPath(character, attack_name, ".mp3"), files)
    THEN AttackPath(character, attack_name, ".mp3")
    ELSE None

----------------------------------------------------------------------------
(* process_audio_intent, section by section *)

\* the 30% rule without the 2 s cap
SilenceTiming_NoCap(audio_intent, scene_duration) ==
    IF Get(audio_intent, "use_silence", FALSE)
    THEN (scene_duration * 3) \div 10
    ELSE 0

\* FIX #1: relative silence timing (30% of scene, max 2 s)
SilenceTiming(audio_intent, scene_duration) ==
    IF Get(audio_intent, "use_silence", FALSE)
    THEN Min(SilenceCapMs, (scene_duration * 3) \div 10)
    ELSE 0

\* background resolved without looking at use_silence
BackgroundSelect_IgnoreSilence(audio_intent) ==
    [bgm_file      |-> Get(BGM_MAP, Get(audio_intent, "bgm", "none"), None),
     ambience_file |-> Get(AMBIENCE_MAP, Get(audio_intent, "ambience", "none"), None)]

\* FIX #2: silence exclusivity (silence -> no ambience/bgm)
BackgroundSelect(audio_intent) ==
    IF Get(audio_intent, "use_silence", FALSE)
    THEN [bgm_file |-> None, ambience_file |-> None]
    ELSE [bgm_file      |-> Get(BGM_MAP, Get(audio_intent, "bgm", "none"), None),
          ambience_file |-> Get(AMBIENCE_MAP, Get(audio_intent, "ambience", "none"), None)]

\* Asset validation with graceful fallback: one "if f and not exists(f)" block
ValidateAsset(file, missing_assets, files) ==
    IF file # None /\ ~exists(file, files)
    THEN [file |-> None, missing_assets |-> Append(missing_assets, file)]
    ELSE [file |-> file, missing_assets |-> missing_assets]

\* the requested sfx resolved whatever the confidence
ConfidenceSfx_NoGate(audio_intent, camera_timing, scene_duration, confidence, missing_assets, files) ==
    LET sfx_file == Get(SFX_MAP, Get(audio_intent, "impact_sfx", "none"), None)
    IN  IF sfx_file # None /\ exists(sfx_file, files)
        THEN [sfx_file       |-> sfx_file,
              sfx_timestamp  |->
                  <<_calculate_sfx_timestamp(
                        Get(camera_timing, "action", "static"),
                        Get(camera_timing, "duration", scene_duration))>>,
              missing_assets |-> missing_assets]
        ELSE [sfx_file |-> None, sfx_timestamp |-> None,
              missing_assets |-> IF sfx_file # None
                                 THEN Append(missing_assets, sfx_file)
                                 ELSE missing_assets]

\* FIX #4: confidence-based SFX (disable if < 0.6)
ConfidenceSfx(audio_intent, camera_timing, scene_duration, confidence, missing_assets, files) ==
    IF confidence >= ConfidenceThreshold
    THEN LET sfx_enum == Get(audio_intent, "impact_sfx", "none")
             sfx_file == Get(SFX_MAP, sfx_enum, None)
         IN  IF sfx_file # None
             THEN IF ~exists(sfx_file, files)
                  THEN [sfx_file       |-> None,
                        sfx_timestamp  |-> None,
                        missing_assets |-> Append(missing_assets, sfx_file)]
                  ELSE [sfx_file       |-> sfx_file,
                        sfx_timestamp  |->
                            <<_calculate_sfx_timestamp(
                                  Get(camera_timing, "action", "static"),
                                  Get(camera_timing, "duration", scene_duration))>>,
                        missing_assets |-> missing_assets]
             ELSE [sfx_file |-> sfx_file, sfx_timestamp |-> None,
                   missing_assets |-> missing_assets]
    ELSE [sfx_file |-> None, sfx_timestamp |-> None,
          missing_assets |-> missing_assets]

\* Stingers with validation
Stingers(audio_intent, missing_assets, files) ==
    LET intro0 == IF Get(audio_intent, "intro_stinger", FALSE)
                  THEN Get(STINGER_MAP, "intro", None) ELSE None
        outro0 == IF Get(audio_intent, "outro_stinger", FALSE)
                  THEN Get(STINGER_MAP, "outro", None) ELSE None
        vi == ValidateAsset(intro0, missing_assets, files)
        vo == ValidateAsset(outro0, vi.missing_assets, files)
    IN  [intro_stinger  |-> vi.file,
         outro_stinger  |-> vo.file,
         missing_assets |-> vo.missing_assets]

\* narration fields set from the intent whether or not there is a text
NarrationPlacement_IgnoreText(audio_intent, narration_text, silence_before) ==
    LET narration_placement == Get(audio_intent, "narration_placement", "over")
    IN  [narration_placement   |-> narration_placement,
         narration_duck_amount |-> 30,
         silence_before        |->
             IF narration_placement = "before"
             THEN Max(silence_before, 80 * Len(narration_text))
             ELSE silence_before]

\* narration placed before overwrites the silence instead of raising it
NarrationPlacement_Overwrite(audio_intent, narration_text, silence_before) ==
    IF Len(narration_text) > 0
    THEN LET narration_placement == Get(audio_intent, "narration_placement", "over")
         IN  [narration_placement   |-> narration_placement,
              narration_duck_amount |-> 30,
              silence_before        |->
                  IF narration_placement = "before"
                  THEN 80 * Len(narration_text)
                  ELSE silence_before]
    ELSE [narration_placement   |-> "none",
          narration_duck_amount |-> 0,
          silence_before        |-> silence_before]

\* Narration placement logic
NarrationPlacement(audio_intent, narration_text, silence_before) ==
    IF Len(narration_text) > 0
    THEN LET narration_placement == Get(audio_intent, "narration_placement", "over")
         IN  [narration_placement   |-> narration_placement,
              narration_duck_amount |-> 30,
              silence_before        |->
                  IF narration_placement = "before"
                  THEN Max(silence_before, 80 * Len(narration_text))
                  ELSE silence_before]
    ELSE [narration_placement   |-> "none",
          narration_duck_amount |-> 0,
          silence_before        |-> silence_before]

\* layer accounting that forgets to disable ambience when bgm is present
LayerAccounting_KeepAmbience(bgm_file, ambience_file, sfx_file, intro_stinger, outro_stinger) ==
    LET bg == IF bgm_file # None \/ ambience_file # None THEN 1 ELSE 0
        im == IF sfx_file # None \/ intro_stinger # None \/ outro_stinger # None
              THEN 1 ELSE 0
    IN  [ambience_file |-> ambience_file,
         intro_stinger |-> intro_stinger,
         outro_stinger |-> outro_stinger,
         layers        |-> <<"dialogue">>,
         layer_count   |-> 1 + bg + im]

\* layer accounting that gives every impact slot a layer of its own
LayerAccounting_StackImpacts(bgm_file, ambience_file, sfx_file, intro_stinger, outro_stinger) ==
    LET l0 == <<"dialogue">>
        l1 == IF bgm_file # None THEN Append(l0, "bgm")
              ELSE IF ambience_file # None THEN Append(l0, "ambience")
              ELSE l0
        l2 == IF sfx_file # None THEN Append(l1, "sfx") ELSE l1
        l3 == IF intro_stinger # None THEN Append(l2, "intro_stinger") ELSE l2
        layers == IF outro_stinger # None THEN Append(l3, "outro_stinger") ELSE l3
        has(x) == \E i \in 1..Len(layers) : layers[i] = x
        n0 == Len(layers)
        trimOutro == n0 > 3 /\ has("outro_stinger")
        n1 == IF trimOutro THEN n0 - 1 ELSE n0
        trimIntro == n0 > 3 /\ n1 > 3 /\ has("intro_stinger")
        n2 == IF trimIntro THEN n1 - 1 ELSE n1
    IN  [ambience_file |-> IF bgm_file # None THEN None ELSE ambience_file,
         intro_stinger |-> IF trimIntro THEN None ELSE intro_stinger,
         outro_stinger |-> IF trimOutro THEN None ELSE outro_stinger,
         layers        |-> layers,
         layer_count   |-> n2]

\* FIX #5: layer limit (dialogue + one background + one impact)
LayerAccounting(bgm_file, ambience_file, sfx_file, intro_stinger, outro_stinger) ==
    LET l0 == <<"dialogue">>
        l1 == IF bgm_file # None THEN Append(l0, "bgm")
              ELSE IF ambience_file # None THEN Append(l0, "ambience")
              ELSE l0
        layers == IF sfx_file # None THEN Append(l1, "sfx")
                  ELSE IF intro_stinger # None THEN Append(l1, "intro_stinger")
                  ELSE IF outro_stinger # None THEN Append(l1, "outro_stinger")
                  ELSE l1
        has(x) == \E i \in 1..Len(layers) : layers[i] = x
        n0 == Len(layers)
        trimOutro == n0 > 3 /\ has("outro_stinger")
        n1 == IF trimOutro THEN n0 - 1 ELSE n0
        trimIntro == n0 > 3 /\ n1 > 3 /\ has("intro_stinger")
        n2 == IF trimIntro THEN n1 - 1 ELSE n1
    IN  [ambience_file |-> IF bgm_file # None THEN None ELSE ambience_file,
         intro_stinger |-> IF trimIntro THEN None ELSE intro_stinger,
         outro_stinger |-> IF trimOutro THEN None ELSE outro_stinger,
         layers        |-> layers,
         layer_count   |-> n2]

\* PART 6: character audio (attack)
AttackAudio(attack_intent, audio_intent, camera_timing, dialogue_duration, sfx_file, sfx_timestamp, layer_count, files) ==
    LET unchanged == [attack_audio |-> None, attack_timestamp |-> None,
                      sfx_file |-> sfx_file, sfx_timestamp |-> sfx_timestamp,
                      layer_count |-> layer_count,
                      character_audio_fallback |-> FALSE]
    IN
    IF DOMAIN attack_intent # {}
    THEN LET character   == lower(Get(attack_intent, "character", ""))
             attack_name == lower(Get(attack_intent, "name", ""))
         IN
         IF character # "" /\ attack_name # ""
         THEN LET attack_audio == resolve_attack_audio(character, attack_name, files)
              IN
              IF attack_audio # None
              THEN [unchanged EXCEPT
                      !.attack_audio = attack_audio,
                      !.attack_timestamp =
                          <<calculate_attack_timing(
                                Get(camera_timing, "action", "static"),
                                dialogue_duration)>>,
                      !.layer_count = layer_count + 1]
              ELSE IF sfx_file = None
                      /\ Get(audio_intent, "impact_sfx", "none") # "none"
              THEN [unchanged EXCEPT !.character_audio_fallback = TRUE]
              ELSE IF sfx_file = None
              THEN LET intensity == Get(attack_intent, "intensity", "medium")
                       fallback_sfx == IF intensity = "low" THEN "punch"
                                       ELSE IF intensity = "high" THEN "explosion"
                                       ELSE "hit"
                       fb_file == Get(SFX_MAP, fallback_sfx, None)
                   IN  IF fb_file # None /\ exists(fb_file, files)
                       THEN [unchanged EXCEPT
                               !.sfx_file = fb_file,
                               !.sfx_timestamp =
                                   <<_calculate_sfx_timestamp(
                                         Get(camera_timing, "action", "static"),
                                         Get(camera_timing, "duration",
                                             dialogue_duration))>>,
                               !.layer_count = layer_count + 1,
                               !.character_audio_fallback = TRUE]
                       ELSE [unchanged EXCEPT !.sfx_file = fb_file]
              ELSE unchanged
         ELSE unchanged
    ELSE unchanged

process_audio_intent(audio_intent, narration_text, dialogue_duration, camera_timing, scene_duration, confidence, attack_intent, files) ==
    LET silence0 == SilenceTiming(audio_intent, scene_duration)
        bg0  == BackgroundSelect(audio_intent)
        vb   == ValidateAsset(bg0.bgm_file, << >>, files)
        va   == ValidateAsset(bg0.ambience_file, vb.missing_assets, files)
        sfx  == ConfidenceSfx(audio_intent, camera_timing, scene_duration,
                              confidence, va.missing_assets, files)
        st   == Stingers(audio_intent, sfx.missing_assets, files)
        narr == NarrationPlacement(audio_intent, narration_text, silence0)
        lay  == LayerAccounting(vb.file, va.file, sfx.sfx_file,
                                st.intro_stinger, st.outro_stinger)
        att  == AttackAudio(attack_intent, audio_intent, camera_timing,
                            dialogue_duration, sfx.sfx_file, sfx.sfx_timestamp,
                            lay.layer_count, files)
    IN  [bgm_file                 |-> vb.file,
         ambience_file            |-> lay.ambience_file,
         sfx_file                 |-> att.sfx_file,
         sfx_timestamp            |-> att.sfx_timestamp,
         intro_stinger            |-> lay.intro_stinger,
         outro_stinger            |-> lay.outro_stinger,
         silence_before           |-> narr.silence_before,
         duck_bgm                 |-> TRUE,
         layer_count              |-> att.layer_count,
         narration_placement      |-> narr.narration_placement,
         narration_duck_amount    |-> narr.narration_duck_amount,
         attack_audio             |-> att.attack_audio,
         attack_timestamp         |-> att.attack_timestamp,
         missing_assets           |-> st.missing_assets,
         character_audio_fallback |-> att.character_audio_fallback]

----------------------------------------------------------------------------
(* mix_scene_audio (video/composer.py): the FFmpeg command it builds.      *)
(* An input is a file with its input options; a filter is one filter of    *)
(* the filter_complex graph with the labels it reads and the label it      *)
(* writes; audio_inputs are the labels handed to the final mix.            *)

\* f"{index}:a"
InputLabel(index) == <<"1:a", "2:a", "3:a", "4:a", "5:a", "6:a">>[index]

Input(file, itsoffset, stream_loop, t) ==
    [file |-> file, itsoffset |-> itsoffset, stream_loop |-> stream_loop, t |-> t]

Filter(op, ins, out, volume, d) ==
    [op |-> op, ins |-> ins, out |-> out, volume |-> volume, d |-> d]

AddInput(m, in) ==
    [m EXCEPT !.inputs = Append(@, in), !.input_index = @ + 1]

AddFilter(m, f) == [m EXCEPT !.filter_parts = Append(@, f)]

AddAudio(m, label) == [m EXCEPT !.audio_inputs = Append(@, label)]

MixStart(video_path) ==
    [inputs       |-> <<Input(video_path, None, FALSE, None)>>,
     filter_parts |-> << >>,
     audio_inputs |-> << >>,
     input_index  |-> 1]

\* Add silence before scene if requested
MixSilence(m, silence_before) ==
    IF silence_before > 0
    THEN AddFilter(m, Filter("anullsrc", << >>, "silence", "", <<silence_before>>))
    ELSE m

\* the after branch pasted from the before branch: narration first
MixDialogue_AfterLikeBefore(m, dialogue_path, narration_path, narration_placement) ==
    LET dialogue_index == m.input_index
        m1 == AddInput(m, Input(dialogue_path, None, FALSE, None))
    IN
    IF narration_path # None /\ narration_placement # "none"
    THEN LET narration_index == m1.input_index
             m2 == AddInput(m1, Input(narration_path, None, FALSE, None))
             nar == InputLabel(narration_index)
             dia == InputLabel(dialogue_index)
         IN
         IF narration_placement \in {"before", "after"}
         THEN AddAudio(AddFilter(m2,
                  Filter("concat", <<nar, dia>>, "dialogue_with_narration", "", None)),
                  "dialogue_with_narration")
         ELSE IF narration_placement = "over"
         THEN AddAudio(
                  AddFilter(AddFilter(AddFilter(m2,
                      Filter("volume", <<nar>>, "narration_vol", "1.0", None)),
                      Filter("volume", <<dia>>, "dialogue_ducked", "0.6", None)),
                      Filter("amix:duration=longest",
                             <<"narration_vol", "dialogue_ducked">>,
                             "dialogue_with_narration", "", None)),
                  "dialogue_with_narration")
         ELSE m2
    ELSE AddAudio(m1, InputLabel(dialogue_index))

\* Add dialogue, handle narration placement
MixDialogue(m, dialogue_path, narration_path, narration_placement) ==
    LET dialogue_index == m.input_index
        m1 == AddInput(m, Input(dialogue_path, None, FALSE, None))
    IN
    IF narration_path # None /\ narration_placement # "none"
    THEN LET narration_index == m1.input_index
             m2 == AddInput(m1, Input(narration_path, None, FALSE, None))
             nar == InputLabel(narration_index)
             dia == InputLabel(dialogue_index)
         IN
         IF narration_placement = "before"
         THEN AddAudio(AddFilter(m2,
                  Filter("concat", <<nar, dia>>, "dialogue_with_narration", "", None)),
                  "dialogue_with_narration")
         ELSE IF narration_placement = "over"
         THEN AddAudio(
                  AddFilter(AddFilter(AddFilter(m2,
                      Filter("volume", <<nar>>, "narration_vol", "1.0", None)),
                      Filter("volume", <<dia>>, "dialogue_ducked", "0.6", None)),
                      Filter("amix:duration=longest",
                             <<"narration_vol", "dialogue_ducked">>,
                             "dialogue_with_narration", "", None)),
                  "dialogue_with_narration")
         ELSE IF narration_placement = "after"
         THEN AddAudio(AddFilter(m2,
                  Filter("concat", <<dia, nar>>, "dialogue_with_narration", "", None)),
                  "dialogue_with_narration")
         ELSE m2
    ELSE AddAudio(m1, InputLabel(dialogue_index))

\* background gain that ducks only under a narration placed over
MixBackground_DuckOnlyOver(m, bgm_file, ambience_file, duck_bgm, narration_path, narration_placement, scene_duration, files) ==
    LET index == m.input_index
        fade  == <<scene_duration>>
    IN
    IF bgm_file # None /\ exists(bgm_file, files)
    THEN LET m1 == AddInput(m, Input(bgm_file, None, TRUE, <<scene_duration>>))
         IN  IF narration_path # None /\ narration_placement = "over"
             THEN AddAudio(AddFilter(m1,
                      Filter("volume,afade", <<InputLabel(index)>>, "bgm_ducked", "0.2", fade)),
                      "bgm_ducked")
             ELSE AddAudio(AddFilter(m1,
                      Filter("volume,afade", <<InputLabel(index)>>, "bgm_vol", "0.3", fade)),
                      "bgm_vol")
    ELSE IF ambience_file # None /\ exists(ambience_file, files)
    THEN LET m1 == AddInput(m, Input(ambience_file, None, TRUE, <<scene_duration>>))
         IN  AddAudio(AddFilter(m1,
                 Filter("volume,afade", <<InputLabel(index)>>, "amb_vol", "0.2", fade)),
                 "amb_vol")
    ELSE m

\* Add BGM (looped to scene duration), else ambience
MixBackground(m, bgm_file, ambience_file, duck_bgm, narration_path, narration_placement, scene_duration, files) ==
    LET index == m.input_index
        fade  == <<scene_duration>>
    IN
    IF bgm_file # None /\ exists(bgm_file, files)
    THEN LET m1 == AddInput(m, Input(bgm_file, None, TRUE, <<scene_duration>>))
         IN  IF duck_bgm \/ (narration_path # None /\ narration_placement = "over")
             THEN AddAudio(AddFilter(m1,
                      Filter("volume,afade", <<InputLabel(index)>>, "bgm_ducked", "0.2", fade)),
                      "bgm_ducked")
             ELSE AddAudio(AddFilter(m1,
                      Filter("volume,afade", <<InputLabel(index)>>, "bgm_vol", "0.3", fade)),
                      "bgm_vol")
    ELSE IF ambience_file # None /\ exists(ambience_file, files)
    THEN LET m1 == AddInput(m, Input(ambience_file, None, TRUE, <<scene_duration>>))
         IN  AddAudio(AddFilter(m1,
                 Filter("volume,afade", <<InputLabel(index)>>, "amb_vol", "0.2", fade)),
                 "amb_vol")
    ELSE m

\* Add impact sfx, else intro stinger, else outro stinger
MixImpact(m, sfx_file, sfx_timestamp, intro_stinger, outro_stinger, scene_duration, stinger_duration, files) ==
    LET index == m.input_index
    IN
    IF sfx_file # None /\ exists(sfx_file, files) /\ sfx_timestamp # None
    THEN AddAudio(AddFilter(
             AddInput(m, Input(sfx_file, sfx_timestamp, FALSE, None)),
             Filter("volume", <<InputLabel(index)>>, "sfx_vol", "0.8", None)),
             "sfx_vol")
    ELSE IF intro_stinger # None /\ exists(intro_stinger, files)
    THEN AddAudio(AddFilter(
             AddInput(m, Input(intro_stinger, None, FALSE, None)),
             Filter("volume", <<InputLabel(index)>>, "stinger_vol", "0.6", None)),
             "stinger_vol")
    ELSE IF outro_stinger # None /\ exists(outro_stinger, files)
    THEN LET stinger_offset == Max(0, scene_duration - stinger_duration)
         IN  AddAudio(AddFilter(
                 AddInput(m, Input(outro_stinger, <<stinger_offset>>, FALSE, None)),
                 Filter("volume", <<InputLabel(index)>>, "stinger_vol", "0.6", None)),
                 "stinger_vol")
    ELSE m

\* attack audio ducked to the cue gain whenever a bgm track is present
MixAttack_DuckedUnderBgm(m, attack_audio, attack_timestamp, files) ==
    IF attack_audio # None /\ exists(attack_audio, files) /\ attack_timestamp # None
    THEN AddAudio(AddFilter(
             AddInput(m, Input(attack_audio, attack_timestamp, FALSE, None)),
             Filter("volume", <<InputLabel(m.input_index)>>, "attack_vol",
                    IF \E j \in 1..Len(m.audio_inputs) :
                           m.audio_inputs[j] = "bgm_ducked"
                    THEN "-8dB" ELSE "-4dB", None)),
             "attack_vol")
    ELSE m

\* Add attack audio (at specific timestamp, -4dB, never ducked)
MixAttack(m, attack_audio, attack_timestamp, files) ==
    IF attack_audio # None /\ exists(attack_audio, files) /\ attack_timestamp # None
    THEN AddAudio(AddFilter(
             AddInput(m, Input(attack_audio, attack_timestamp, FALSE, None)),
             Filter("volume", <<InputLabel(m.input_index)>>, "attack_vol", "-4dB", None)),
             "attack_vol")
    ELSE m

\* Add personality cue (at specific timestamp, -8dB)
MixPersonality(m, personality_audio, personality_timestamp, files) ==
    IF personality_audio # None /\ exists(personality_audio, files)
       /\ personality_timestamp # None
    THEN AddAudio(AddFilter(
             AddInput(m, Input(personality_audio, personality_timestamp, FALSE, None)),
             Filter("volume", <<InputLabel(m.input_index)>>, "personality_vol", "-8dB", None)),
             "personality_vol")
    ELSE m

\* Final mix and -map: a bracketed label names a filter output, a bare one
\* is handed to -map as written
MixFinal(m, dialogue_index) ==
    IF Len(m.audio_inputs) > 1
    THEN [inputs       |-> m.inputs,
          filter_parts |-> Append(m.filter_parts,
              Filter("amix:duration=longest:dropout_transition=0,volume",
                     m.audio_inputs, "final_audio", "1.0", None)),
          audio_inputs |-> m.audio_inputs,
          audio_map    |-> [label |-> "final_audio", bracketed |-> TRUE]]
    ELSE [inputs       |-> m.inputs,
          filter_parts |-> m.filter_parts,
          audio_inputs |-> m.audio_inputs,
          audio_map    |-> [label |-> IF Len(m.audio_inputs) > 0
                                      THEN m.audio_inputs[1]
                                      ELSE InputLabel(dialogue_index),
                            bracketed |-> FALSE]]

mix_scene_audio(video_path, dialogue_path, audio_params, narration_path, scene_duration, stinger_duration, files) ==
    LET m0 == MixSilence(MixStart(video_path),
                         Get(audio_params, "silence_before", 0))
        dialogue_index == m0.input_index
        m1 == MixDialogue(m0, dialogue_path, narration_path,
                          Get(audio_params, "narration_placement", "none"))
        m2 == MixBackground(m1, Get(audio_params, "bgm_file", None),
                            Get(audio_params, "ambience_file", None),
                            Get(audio_params, "duck_bgm", FALSE),
                            narration_path,
                            Get(audio_params, "narration_placement", "none"),
                            scene_duration, files)
        m3 == MixImpact(m2, Get(audio_params, "sfx_file", None),
                        Get(audio_params, "sfx_timestamp", <<0>>),
                        Get(audio_params, "intro_stinger", None),
                        Get(audio_params, "outro_stinger", None),
                        scene_duration, stinger_duration, files)
        m4 == MixAttack(m3, Get(audio_params, "attack_audio", None),
                        Get(audio_params, "attack_timestamp", <<0>>), files)
        m5 == MixPersonality(m4, Get(audio_params, "personality_audio", None),
                             Get(audio_params, "personality_timestamp", <<0>>),
                             files)
    IN  MixFinal(m5, dialogue_index)

----------------------------------------------------------------------------
(* Inputs *)

\* the files that may exist (the generic hit sfx is never installed)
Assets ==
    { BGM_MAP["calm"], AMBIENCE_MAP["wind"],
      SFX_MAP["punch"], SFX_MAP["explosion"],
      STINGER_MAP["intro"], STINGER_MAP["outro"],
      AttackPath("luffy", "gum_gum_pistol", ".wav"),
      AttackPath("luffy", "gum_gum_pistol", ".mp3") }

NarrationTexts == { [i \in 1..n |-> "a"] : n \in 0..MaxNarrationChars }

SceneDurations == {0, 1000, 4000, 6000, 10000}

Emotions == {"CALM", "HAPPY", "ANGRY", "SAD", "SURPRISED", "FIGHT", "fight",
             "DRAMATIC", "BORED"}

\* action values handed in directly, among them one no rule names
CameraActions == {"static", "zoom_in", "shake", "shake_agressive",
                  "pan_right", "dolly"}

\* the pipeline's camera timings, direct ones, and one without an action
CameraTimings(d) ==
    { get_camera_timing(e, d) : e \in Emotions }
    \cup { [action |-> ca, duration |-> d, intensity |-> "low"] :
              ca \in CameraActions }
    \cup { [duration |-> d, intensity |-> "low"] }

AttackIntents ==
    { EmptyDict,
      [character |-> "", name |-> "gum_gum_pistol", intensity |-> "high"],
      [character |-> "Luffy", name |-> "", intensity |-> "high"],
      [character |-> "Luffy", name |-> "gum_gum_pistol"] }
    \cup [character : {"luffy"}, name : {"gum_gum_pistol"},
          intensity : {"low", "medium", "high"}]

\* every asset-existence environment against every enumerated intent
AssetCalls ==
    [audio_intent : [use_silence : BOOLEAN, bgm : {"none", "calm"},
                     ambience : {"none", "wind"},
                     impact_sfx : {"none", "punch"},
                     intro_stinger : BOOLEAN, outro_stinger : BOOLEAN],
     narration_text : {<< >>},
     dialogue_duration : {4000},
     camera_timing : {[action |-> "zoom_in", duration |-> 4000,
                       intensity |-> "medium"]},
     scene_duration : {4000},
     confidence : {59, 60},
     attack_intent : AttackIntents]

VideoPath == <<"temp", "scene_clip.mp4">>

DialoguePath == <<"temp", "scene_audio.mp3">>

NarrationFile == <<"temp", "scene_narration.mp3">>

\* durations ffprobe may report for the outro stinger
StingerDurations == {1000, 5000}

\* every timing and narration input against a full and an empty asset tree
TimingIntents ==
    [use_silence : BOOLEAN, bgm : {"calm"}, impact_sfx : {"none", "punch"},
     narration_placement : {"before", "over", "after"}]
    \cup [use_silence : BOOLEAN, bgm : {"calm"}, impact_sfx : {"none", "punch"}]

TimingCallsOf(d) ==
    { [audio_intent |-> ai, narration_text |-> nt, dialogue_duration |-> d,
       camera_timing |-> ct,
       scene_duration |-> d, confidence |-> 60, attack_intent |-> at] :
         ai \in TimingIntents, nt \in NarrationTexts,
         ct \in CameraTimings(d) \cup CameraTimings(6000),
         at \in {EmptyDict, [character |-> "luffy", name |-> "gum_gum_pistol",
                             intensity |-> "high"]} }

TimingCalls == UNION { TimingCallsOf(d) : d \in SceneDurations }

----------------------------------------------------------------------------
(* State machine: one scene, compiled by process_audio_intent and rendered *)
(* by mix_scene_audio against the same file system                         *)

\* run_pipeline before its scene loop, with no scene
PipelineIdle ==
    /\ scenes = << >> /\ scene_index = 0
    /\ scene_analysis = EmptyDict /\ scene_clips = << >>

\* run_with_gpu_guard not called
GuardIdle ==
    /\ func = << >> /\ attempt = 0 /\ invocations = 0
    /\ cache_clears = 0 /\ result = None

Init ==
    /\ pc = "call"
    /\ plan = EmptyDict
    /\ mix = EmptyDict
    /\ PipelineIdle /\ GuardIdle /\ raised = None
    /\ \/ fs \in SUBSET Assets /\ args \in AssetCalls
          /\ narration_file = None
       \/ fs \in {{}, Assets} /\ args \in TimingCalls
          /\ narration_file \in {None, NarrationFile}

ProcessAudioIntent ==
    /\ pc = "call"
    /\ plan' = process_audio_intent(args.audio_intent, args.narration_text,
                                    args.dialogue_duration, args.camera_timing,
                                    args.scene_duration, args.confidence,
                                    args.attack_intent, fs)
    /\ pc' = "return"
    /\ UNCHANGED <<fs, args, narration_file, mix>>
    /\ UNCHANGED <<pipeline_vars, raised, guard_vars>>

MixSceneAudio ==
    /\ pc = "return"
    /\ \E stinger_duration \in StingerDurations :
           mix' = mix_scene_audio(VideoPath, DialoguePath, plan, narration_file,
                                  args.scene_duration, stinger_duration, fs)
    /\ pc' = "mixed"
    /\ UNCHANGED <<fs, args, plan, narration_file>>
    /\ UNCHANGED <<pipeline_vars, raised, guard_vars>>

Next == ProcessAudioIntent \/ MixSceneAudio

Spec == Init /\ [][Next]_vars

----------------------------------------------------------------------------
(* run_pipeline (pipeline/main_pipeline.py): the scene loop.  analyze_scene *)
(* (intelligence/comic_brain.py) either answers or falls back on an error; *)
(* OCR, text-to-speech, ffprobe and ffmpeg are taken to succeed.           *)

\* Legacy compatibility: map the director output to the old format
legacy_result(director) ==
    LET characters == Get(director, "characters", << >>)
    IN  [character_name   |-> IF characters # << >>
                              THEN characters[1].name ELSE "unknown",
         emotion          |-> IF characters # << >>
                              THEN upper(characters[1].emotion) ELSE "NEUTRAL",
         camera_action    |-> upper(director.camera.action),
         voiceover_script |-> IF characters # << >>
                              THEN Get(characters[1], "dialogue",
                                       "The scene continues.")
                              ELSE "The scene continues.",
         confidence_score |-> Get(director, "confidence", 50),
         _raw_director_output |-> <<director>>]

\* the except branch of analyze_scene
error_result ==
    [character_name   |-> "unknown",
     emotion          |-> "NEUTRAL",
     camera_action    |-> "STATIC",
     voiceover_script |-> "The scene continues with quiet intensity.",
     confidence_score |-> 0,
     _raw_director_output |-> None]

\* scene_analysis.get("_raw_director_output", {}): the default stands in for
\* a missing key only
raw_director_output(analysis) ==
    Get(analysis, "_raw_director_output", <<EmptyDict>>)

\* what None.get(...) raises
AttributeError ==
    [type |-> "AttributeError",
     message |-> <<"NoneType", "object", "has", "no", "attribute", "get">>]

\* the arguments run_pipeline hands to process_audio_intent
SceneCall(raw_output, analysis, audio_duration) ==
    [audio_intent      |-> Get(raw_output, "audio", EmptyDict),
     narration_text    |-> Get(raw_output, "narration", << >>),
     dialogue_duration |-> audio_duration,
     camera_timing     |-> get_camera_timing(analysis.emotion, audio_duration),
     scene_duration    |-> audio_duration,
     confidence        |-> analysis.confidence_score,
     attack_intent     |-> Get(raw_output, "attack", EmptyDict)]

\* f"scene_{i}_audio.mp3", f"scene_{i}_clip.mp4", f"scene_{i}_final.mp4"
AudioPath(n) ==
    <<"temp", <<"scene_0_audio.mp3", "scene_1_audio.mp3", "scene_2_audio.mp3",
                "scene_3_audio.mp3">>[n + 1]>>

ClipPath(n) ==
    <<"temp", <<"scene_0_clip.mp4", "scene_1_clip.mp4", "scene_2_clip.mp4",
                "scene_3_clip.mp4">>[n + 1]>>

FinalClipPath(n) ==
    <<"temp", <<"scene_0_final.mp4", "scene_1_final.mp4", "scene_2_final.mp4",
                "scene_3_final.mp4">>[n + 1]>>

FinalVideo == <<"output", "final_output.mp4">>

\* the reference panels of the grouped scenes
PanelPath(n) ==
    <<"temp", <<"page_0_panel_0.png", "page_0_panel_1.png",
                "page_0_panel_2.png", "page_0_panel_3.png">>[n]>>

\* director outputs the reasoning step may answer with
CharacterParts ==
    { EmptyDict,
      [characters |-> <<[name |-> "Luffy", emotion |-> "fight",
                         dialogue |-> "Gum Gum Pistol!"]>>],
      [characters |-> <<[name |-> "Nami", emotion |-> "calm"]>>] }

NarrationParts == { EmptyDict, [narration |-> <<"a", "a">>] }

AudioParts ==
    { EmptyDict,
      [audio |-> [bgm |-> "calm", impact_sfx |-> "punch"]],
      [audio |-> [bgm |-> "calm", use_silence |-> TRUE,
                  narration_placement |-> "before"]] }

AttackParts ==
    { EmptyDict,
      [attack |-> [character |-> "Luffy", name |-> "gum_gum_pistol",
                   intensity |-> "high"]] }

ConfidenceParts == { EmptyDict, [confidence |-> 90] }

DirectorOutputs ==
    { [camera |-> [action |-> "static"]] @@ ch @@ na @@ au @@ at @@ co :
          ch \in CharacterParts, na \in NarrationParts, au \in AudioParts,
          at \in AttackParts, co \in ConfidenceParts }

\* durations get_audio_duration reports (5.0 is its fallback)
AudioDurations == {4000, 5000}

PipelineInit ==
    /\ pc = "loop"
    /\ scenes \in { [k \in 1..n |-> PanelPath(k)] : n \in 1..MaxScenes }
    /\ scene_index = 0
    /\ scene_analysis = EmptyDict
    /\ scene_clips = << >>
    /\ fs \in {{}, Assets}
    /\ args = EmptyDict /\ plan = EmptyDict /\ mix = EmptyDict
    /\ narration_file = None
    /\ raised = None
    /\ GuardIdle

\* 5. Reasoning: analyze_scene answers with a director output or falls back
AnalyzeScene ==
    /\ pc = "loop" /\ scene_index < Len(scenes)
    /\ \/ \E director \in DirectorOutputs :
              scene_analysis' = legacy_result(director)
       \/ scene_analysis' = error_result
    /\ pc' = "analyzed"
    /\ UNCHANGED <<audio_vars, scenes, scene_index, scene_clips, raised, guard_vars>>

\* 6.-11. voiceover, animation, extraction of the intents, audio intelligence
CompileScene ==
    /\ pc = "analyzed"
    /\ LET raw_output == raw_director_output(scene_analysis)
       IN  IF raw_output = None
           THEN /\ raised' = <<AttributeError>>
                /\ pc' = "raised"
                /\ UNCHANGED <<args, plan>>
           ELSE /\ \E audio_duration \in AudioDurations :
                       args' = SceneCall(raw_output[1], scene_analysis,
                                         audio_duration)
                /\ plan' = process_audio_intent(
                               args'.audio_intent, args'.narration_text,
                               args'.dialogue_duration, args'.camera_timing,
                               args'.scene_duration, args'.confidence,
                               args'.attack_intent, fs)
                /\ pc' = "compiled"
                /\ UNCHANGED raised
    /\ UNCHANGED <<fs, narration_file, mix, pipeline_vars, guard_vars>>

\* 9. Audio Mixing: mix_scene_audio is called without a narration_path
MixScene ==
    /\ pc = "compiled"
    /\ narration_file' = None
    /\ \E stinger_duration \in StingerDurations :
           mix' = mix_scene_audio(ClipPath(scene_index), AudioPath(scene_index),
                                  plan, narration_file', args.scene_duration,
                                  stinger_duration, fs)
    /\ pc' = "mixed"
    /\ UNCHANGED <<fs, args, plan, pipeline_vars, raised, guard_vars>>

\* scene_clips.append(mixed_clip), the periodic cache clearing, next scene
AppendClip ==
    /\ pc = "mixed"
    /\ scene_clips' = Append(scene_clips, FinalClipPath(scene_index))
    /\ cache_clears' = IF scene_index % 5 = 0
                       THEN cache_clears + 1 ELSE cache_clears
    /\ scene_index' = scene_index + 1
    /\ pc' = "loop"
    /\ UNCHANGED <<audio_vars, scenes, scene_analysis, raised,
                   func, attempt, invocations, result>>

\* 10. Composition
Compose ==
    /\ pc = "loop" /\ scene_index = Len(scenes)
    /\ result' = <<FinalVideo>>
    /\ pc' = "done"
    /\ UNCHANGED <<audio_vars, pipeline_vars, raised,
                   func, attempt, invocations, cache_clears>>

PipelineNext ==
    AnalyzeScene \/ CompileScene \/ MixScene \/ AppendClip \/ Compose

PipelineSpec == PipelineInit /\ [][PipelineNext]_vars

----------------------------------------------------------------------------
(* run_with_gpu_guard (infra/gpu_utils.py).  func is what the guarded      *)
(* function does on its successive invocations; one step of the model is   *)
(* one iteration of the retry loop.                                        *)

max_retries == 2

Returns(value) ==
    [kind |-> "return", value |-> value, type |-> "", message |-> << >>]

Raises(type, message) ==
    [kind |-> "raise", value |-> None, type |-> type, message |-> message]

\* the exception an invocation raises
Exception(outcome) == [type |-> outcome.type, message |-> outcome.message]

\* str(e).lower(), word by word
lower_words(message) == [k \in 1..Len(message) |-> lower(message[k])]

\* needle in haystack, on sequences of words
Contains(haystack, needle) ==
    \E k \in 0..(Len(haystack) - Len(needle)) :
        \A j \in 1..Len(needle) : haystack[k + j] = needle[j]

OutOfMemory == <<"out", "of", "memory">>

\* the last attempt swallowing the out-of-memory error instead of raising it
GuardIteration_SwallowLastOom(n, outcome) ==
    LET idle == [pc |-> "guard", attempt |-> n, result |-> None,
                 raised |-> None, cleared |-> 0]
    IN
    IF outcome.kind = "return"
    THEN [idle EXCEPT !.pc = "returned", !.result = <<outcome.value>>]
    ELSE IF Contains(lower_words(outcome.message), OutOfMemory)
    THEN IF n + 1 <= max_retries
         THEN [idle EXCEPT !.attempt = n + 1, !.cleared = 1]
         ELSE [idle EXCEPT !.pc = "returned", !.cleared = 1]
    ELSE [idle EXCEPT !.pc = "raised", !.raised = <<Exception(outcome)>>]

\* one iteration of 'for attempt in range(max_retries + 1)': the try, its
\* except clause, and what follows the loop when it is exhausted
GuardIteration(n, outcome) ==
    LET idle == [pc |-> "guard", attempt |-> n, result |-> None,
                 raised |-> None, cleared |-> 0]
    IN
    IF outcome.kind = "return"
    THEN [idle EXCEPT !.pc = "returned", !.result = <<outcome.value>>]
    ELSE IF Contains(lower_words(outcome.message), OutOfMemory)
    THEN IF n = max_retries
         THEN [idle EXCEPT !.pc = "raised", !.raised = <<Exception(outcome)>>,
                           !.cleared = 1]
         ELSE IF n + 1 <= max_retries
         THEN [idle EXCEPT !.attempt = n + 1, !.cleared = 1]
         ELSE [idle EXCEPT !.pc = "returned", !.cleared = 1]
    ELSE [idle EXCEPT !.pc = "raised", !.raised = <<Exception(outcome)>>]

\* what an invocation of the guarded function may do
ExceptionMessages ==
    { <<"CUDA", "out", "of", "memory">>,
      <<"Out", "of", "memory", "on", "device">>,
      <<"CUDA", "error", "OUT", "OF", "MEMORY">>,
      <<"ran", "out", "of", "disk", "space">>,
      <<"file", "not", "found">> }

Outcomes ==
    { Returns(<<"panel_0.png">>), Returns(None) }
    \cup { Raises("RuntimeError", message) : message \in ExceptionMessages }

GuardInit ==
    /\ pc = "guard"
    /\ func \in [1..MaxCalls -> Outcomes]
    /\ attempt = 0 /\ invocations = 0 /\ cache_clears = 0
    /\ result = None /\ raised = None
    /\ PipelineIdle
    /\ fs = {} /\ args = EmptyDict /\ plan = EmptyDict /\ mix = EmptyDict
    /\ narration_file = None

Invoke ==
    /\ pc = "guard" /\ invocations < MaxCalls
    /\ LET step == GuardIteration(attempt, func[invocations + 1])
       IN  /\ invocations' = invocations + 1
           /\ attempt' = step.attempt
           /\ cache_clears' = cache_clears + step.cleared
           /\ result' = step.result
           /\ raised' = step.raised
           /\ pc' = step.pc
    /\ UNCHANGED <<audio_vars, pipeline_vars, func>>

GuardNext == Invoke

GuardSpec == GuardInit /\ [][GuardNext]_vars

\* the loop runs on: an iteration that can be taken is taken
FairGuardSpec == GuardSpec /\ WF_vars(Invoke)

----------------------------------------------------------------------------
(* Vocabulary of the properties *)

Returned == pc = "return"

UseSilence == Get(args.audio_intent, "use_silence", FALSE)

RequestedBgm == Get(BGM_MAP, Get(args.audio_intent, "bgm", "none"), None)

RequestedAmbience ==
    Get(AMBIENCE_MAP, Get(args.audio_intent, "ambience", "none"), None)

RequestedImpact == Get(args.audio_intent, "impact_sfx", "none")

RequestedSfx == Get(SFX_MAP, RequestedImpact, None)

NarrationBefore ==
    /\ Len(args.narration_text) > 0
    /\ Get(args.audio_intent, "narration_placement", "over") = "before"

SilenceCap == Min(2000, (3 * args.scene_duration) \div 10)

AttackCharacter == lower(Get(args.attack_intent, "character", ""))

AttackName == lower(Get(args.attack_intent, "name", ""))

\* a named attack whose bespoke asset exists under neither extension
AttackMissed ==
    /\ AttackCharacter # "" /\ AttackName # ""
    /\ AttackPath(AttackCharacter, AttackName, ".wav") \notin fs
    /\ AttackPath(AttackCharacter, AttackName, ".mp3") \notin fs

\* no generic sfx is active when the attack is processed
NoActiveSfx ==
    \/ RequestedSfx = None
    \/ args.confidence < 60
    \/ RequestedSfx \notin fs

IntensitySfx ==
    LET intensity == Get(args.attack_intent, "intensity", "medium")
    IN  IF intensity = "low" THEN SFX_MAP["punch"]
        ELSE IF intensity = "high" THEN SFX_MAP["explosion"]
        ELSE SFX_MAP["hit"]

AssetSlots == {"bgm_file", "ambience_file", "sfx_file", "intro_stinger",
               "outro_stinger", "attack_audio"}

InSeq(x, seq) == \E i \in 1..Len(seq) : seq[i] = x

Only(cond, x) == IF cond THEN {x} ELSE {}

\* the <<slot, path>> pairs whose existence the call asks the file system for
LookedUp ==
    Only(~UseSilence /\ RequestedBgm # None, <<"bgm_file", RequestedBgm>>)
    \cup Only(~UseSilence /\ RequestedAmbience # None,
              <<"ambience_file", RequestedAmbience>>)
    \cup Only(args.confidence >= 60 /\ RequestedSfx # None,
              <<"sfx_file", RequestedSfx>>)
    \cup Only(Get(args.audio_intent, "intro_stinger", FALSE),
              <<"intro_stinger", STINGER_MAP["intro"]>>)
    \cup Only(Get(args.audio_intent, "outro_stinger", FALSE),
              <<"outro_stinger", STINGER_MAP["outro"]>>)
    \cup Only(AttackMissed /\ RequestedImpact = "none",
              <<"sfx_file", IntensitySfx>>)

----------------------------------------------------------------------------
(* Properties *)

\* C1: in every returned plan the layer count excluding attack audio
\* (layer_count - 1 when attack_audio is set, else layer_count) is at most 3.
C1_LayerCap ==
    Returned =>
        (IF plan.attack_audio # None
         THEN plan.layer_count - 1 ELSE plan.layer_count) <= 3

\* C2: every non-none asset slot of a returned plan names an existing asset,
\* and every asset looked up and not found leaves its slot none and is
\* listed in missing_assets.
C2_AssetsChecked ==
    Returned =>
        /\ \A slot \in AssetSlots : plan[slot] # None => plan[slot] \in fs
        /\ \A lk \in LookedUp :
               lk[2] \notin fs =>
                   /\ plan[lk[1]] = None
                   /\ InSeq(lk[2], plan.missing_assets)

\* C3 (as stated): confidence < 0.6 gives sfx_file = none, whatever the
\* requested impact_sfx and whatever the attack intent.
C3_Original ==
    (Returned /\ args.confidence < 60) => plan.sfx_file = None

\* C3 (amended): with confidence < 0.6 the requested impact_sfx is never
\* resolved: sfx_file is none, except when impact_sfx is none and a named
\* attack misses its bespoke asset, where sfx_file is the generic sfx mapped
\* from the attack intensity.
C3_ConfidenceGate ==
    (Returned /\ args.confidence < 60) =>
        IF AttackMissed /\ RequestedImpact = "none"
        THEN plan.sfx_file = IntensitySfx
        ELSE plan.sfx_file = None

C3_Witness ==
    /\ Returned /\ args.confidence < 60
    /\ RequestedSfx # None /\ RequestedSfx \in fs
    /\ AttackMissed
    /\ plan.sfx_file = None

\* C4: at most one of sfx_file, intro_stinger, outro_stinger is non-none,
\* by priority sfx > intro_stinger > outro_stinger.
C4_OneImpact ==
    Returned =>
        /\ plan.intro_stinger # None => plan.sfx_file = None
        /\ plan.outro_stinger # None =>
               (plan.sfx_file = None /\ plan.intro_stinger = None)

\* C5 (as stated): with scene_duration > 0, silence_before lies in
\* [0, min(2.0, 0.3 * scene_duration)] for every narration text and placement.
C5_Original ==
    (Returned /\ args.scene_duration > 0) =>
        (0 <= plan.silence_before /\ plan.silence_before <= SilenceCap)

\* C5 (amended): with scene_duration > 0, silence_before is never negative,
\* and it lies in [0, min(2.0, 0.3 * scene_duration)] unless the narration
\* text is non-empty and placed before, where it is at least the narration
\* estimate (character count / 12.5 s).
C5_SilenceInterval ==
    (Returned /\ args.scene_duration > 0) =>
        /\ 0 <= plan.silence_before
        /\ ~NarrationBefore => plan.silence_before <= SilenceCap
        /\ NarrationBefore =>
               plan.silence_before >= 80 * Len(args.narration_text)

C5_Witness ==
    /\ Returned /\ UseSilence /\ args.scene_duration = 10000
    /\ Len(args.narration_text) > 0 /\ ~NarrationBefore
    /\ plan.silence_before = 2000

\* C6: use_silence = true gives a plan without background: bgm_file and
\* ambience_file are both none.
C6_SilenceExclusive ==
    (Returned /\ UseSilence) =>
        (plan.bgm_file = None /\ plan.ambience_file = None)

C6_Witness ==
    /\ Returned /\ UseSilence
    /\ RequestedBgm # None /\ RequestedBgm \in fs
    /\ RequestedAmbience # None /\ RequestedAmbience \in fs
    /\ plan.bgm_file = None /\ plan.ambience_file = None

\* C7: at most one of bgm_file and ambience_file is non-none; without
\* silence, when the requested bgm and the requested ambience both exist,
\* the background is the bgm.
C7_BgmDominates ==
    Returned =>
        /\ ~(plan.bgm_file # None /\ plan.ambience_file # None)
        /\ (/\ ~UseSilence
            /\ RequestedBgm # None /\ RequestedBgm \in fs
            /\ RequestedAmbience # None /\ RequestedAmbience \in fs)
           => (plan.bgm_file = RequestedBgm /\ plan.ambience_file = None)

C7_Witness ==
    /\ Returned /\ ~UseSilence
    /\ RequestedBgm # None /\ RequestedBgm \in fs
    /\ RequestedAmbience # None /\ RequestedAmbience \in fs
    /\ plan.bgm_file = RequestedBgm /\ plan.ambience_file = None

\* C9: with no asset at all, every asset slot of the returned plan is none
\* and layer_count = 1.
C9_NoAssets ==
    (Returned /\ fs = {}) =>
        /\ \A slot \in AssetSlots : plan[slot] = None
        /\ plan.layer_count = 1

\* C10: a named attack without bespoke asset, with no generic sfx active,
\* gets the generic sfx mapped from its intensity and
\* character_audio_fallback = true.
C10_AttackFallback ==
    (Returned /\ AttackMissed /\ NoActiveSfx) =>
        /\ plan.sfx_file = IntensitySfx
        /\ plan.character_audio_fallback = TRUE

\* C11: a call with scene_duration <= 0, or with a camera timing without
\* an action value, ends in an error and returns no plan.
C11_FatalInputs ==
    (args.scene_duration <= 0 \/ "action" \notin DOMAIN args.camera_timing)
        => pc \in {"call", "error"}

CameraAction == Get(args.camera_timing, "action", "static")

\* C12: the impact timestamp is half the camera duration for zoom_in and
\* 0 for every other camera action.
C12_SfxTimestamp ==
    (Returned /\ plan.sfx_timestamp # None) =>
        plan.sfx_timestamp =
            <<IF CameraAction = "zoom_in"
              THEN args.camera_timing.duration \div 2 ELSE 0>>

C12_Witness ==
    /\ Returned /\ CameraAction = "zoom_in"
    /\ args.camera_timing.duration = 6000
    /\ plan.sfx_timestamp = <<3000>>

C14_NarrationFields ==
    Returned =>
        IF Len(args.narration_text) > 0
        THEN /\ plan.narration_placement =
                    (IF "narration_placement" \in DOMAIN args.audio_intent
                     THEN args.audio_intent.narration_placement ELSE "over")
             /\ plan.narration_duck_amount = 30
        ELSE /\ plan.narration_placement = "none"
             /\ plan.narration_duck_amount = 0

C14_Witness ==
    /\ Returned /\ Len(args.narration_text) = 0
    /\ "narration_placement" \in DOMAIN args.audio_intent
    /\ plan.narration_placement = "none"

CountIf(b) == IF b THEN 1 ELSE 0

\* C16: layer_count = 1 + 1 if a background slot is set + 1 if an impact
\* slot is set + 1 if attack_audio is set.
C16_LayerCount ==
    Returned =>
        plan.layer_count =
            1 + CountIf(plan.bgm_file # None \/ plan.ambience_file # None)
              + CountIf(plan.sfx_file # None \/ plan.intro_stinger # None
                        \/ plan.outro_stinger # None)
              + CountIf(plan.attack_audio # None)

SilenceBase == IF UseSilence THEN SilenceCap ELSE 0

\* C17: silence_before is base = min(2.0, 0.3 * scene_duration) under
\* use_silence and 0 otherwise, raised to max(base, character count / 12.5)
\* when a non-empty narration is placed before.
C17_SilenceFormula ==
    Returned =>
        plan.silence_before =
            (IF NarrationBefore
             THEN Max(SilenceBase, 80 * Len(args.narration_text))
             ELSE SilenceBase)

C17_Witness ==
    /\ Returned /\ NarrationBefore /\ UseSilence
    /\ args.scene_duration = 10000
    /\ 80 * Len(args.narration_text) < 2000
    /\ plan.silence_before = 2000

\* C18: every degradation shows in the plan: a requested asset that is
\* missing, a named attack without audio, and a requested sfx disabled by low
\* confidence each have their path in missing_assets, or
\* character_audio_fallback is true.
C18_DegradationObservable ==
    Returned =>
        \/ plan.character_audio_fallback
        \/ /\ \A lk \in LookedUp :
                  lk[2] \notin fs => InSeq(lk[2], plan.missing_assets)
           /\ AttackMissed =>
                  InSeq(AttackPath(AttackCharacter, AttackName, ".wav"),
                        plan.missing_assets)
           /\ (RequestedSfx # None /\ args.confidence < 60) =>
                  InSeq(RequestedSfx, plan.missing_assets)

Mixed == pc = "mixed"

HasFilter(f) == InSeq(f, mix.filter_parts)

Reads(label) ==
    \E i \in 1..Len(mix.filter_parts) : InSeq(label, mix.filter_parts[i].ins)

BackgroundLabels == {"bgm_ducked", "bgm_vol", "amb_vol"}

C19_SilenceConsumed ==
    (Mixed /\ plan.silence_before > 0) =>
        /\ \E i \in 1..Len(mix.filter_parts) :
               mix.filter_parts[i].out = "silence"
        /\ Reads("silence") \/ mix.audio_map.label = "silence"

DialogueLabel == InputLabel(1)

NarrationLabel == InputLabel(2)

DialogueTrackLabels == {DialogueLabel, "dialogue_with_narration"}

\* exactly one dialogue/narration track enters the mix and it is the first
OneDialogueTrackFirst ==
    /\ Len(mix.audio_inputs) >= 1
    /\ mix.audio_inputs[1] \in DialogueTrackLabels
    /\ \A i \in 2..Len(mix.audio_inputs) :
           mix.audio_inputs[i] \notin DialogueTrackLabels

DialogueAlone ==
    /\ mix.audio_inputs[1] = DialogueLabel
    /\ \A i \in 1..Len(mix.filter_parts) :
           InSeq(DialogueLabel, mix.filter_parts[i].ins)
               => mix.filter_parts[i].out = "final_audio"
    /\ \A i \in 1..Len(mix.inputs) : mix.inputs[i].file # NarrationFile

\* the track the placement asks for, built from the narration and the dialogue
PlacedTrack ==
    IF plan.narration_placement = "before"
    THEN /\ mix.audio_inputs[1] = "dialogue_with_narration"
         /\ HasFilter(Filter("concat", <<NarrationLabel, DialogueLabel>>,
                             "dialogue_with_narration", "", None))
    ELSE IF plan.narration_placement = "after"
    THEN /\ mix.audio_inputs[1] = "dialogue_with_narration"
         /\ HasFilter(Filter("concat", <<DialogueLabel, NarrationLabel>>,
                             "dialogue_with_narration", "", None))
    ELSE IF plan.narration_placement = "over"
    THEN /\ mix.audio_inputs[1] = "dialogue_with_narration"
         /\ HasFilter(Filter("volume", <<NarrationLabel>>, "narration_vol",
                             "1.0", None))
         /\ HasFilter(Filter("volume", <<DialogueLabel>>, "dialogue_ducked",
                             "0.6", None))
         /\ HasFilter(Filter("amix:duration=longest",
                             <<"narration_vol", "dialogue_ducked">>,
                             "dialogue_with_narration", "", None))
    ELSE DialogueAlone

\* C20 (as stated): the dialogue/narration track follows narration_placement
\* (before: narration then dialogue; after: dialogue then narration; over:
\* narration at 1.0 over dialogue at 0.6; none: dialogue alone), and exactly
\* one such track enters the final mix, as the first track.
C20_Original ==
    Mixed =>
        /\ OneDialogueTrackFirst
        /\ PlacedTrack
        /\ plan.narration_placement # "none" =>
               mix.inputs[3].file = NarrationFile

\* C20 (amended): the same when a narration path is supplied; without a
\* narration path the track is the dialogue alone at unchanged gain whatever
\* the placement.
C20_DialogueTrack ==
    Mixed =>
        /\ OneDialogueTrackFirst
        /\ IF narration_file # None
           THEN /\ PlacedTrack
                /\ plan.narration_placement # "none" =>
                       mix.inputs[3].file = NarrationFile
           ELSE DialogueAlone

C20_Witness ==
    /\ Mixed /\ narration_file # None
    /\ plan.narration_placement = "after"
    /\ mix.audio_inputs[1] = "dialogue_with_narration"
    /\ Len(mix.audio_inputs) > 1

ImpactLabels == {"sfx_vol", "stinger_vol"}

CountLabels(labels) ==
    Cardinality({i \in 1..Len(mix.audio_inputs) : mix.audio_inputs[i] \in labels})

\* a track that enters the mix under label: the file, not looped, shifted by
\* itsoffset, through one volume filter of the given gain
TimedTrack(label, file, itsoffset, gain) ==
    /\ CountLabels({label}) = 1
    /\ \E k \in 1..(Len(mix.inputs) - 1) :
           /\ mix.inputs[k + 1] = Input(file, itsoffset, FALSE, None)
           /\ HasFilter(Filter("volume", <<InputLabel(k)>>, label, gain, None))
    /\ \A i \in 1..Len(mix.filter_parts) :
           mix.filter_parts[i].out = label =>
               mix.filter_parts[i] \in
                   {Filter("volume", <<InputLabel(k)>>, label, gain, None) :
                        k \in 1..(Len(mix.inputs) - 1)}

\* C21: at most one impact track enters the mix, never looped: the plan's
\* sfx at sfx_timestamp with gain 0.8, else its intro stinger with gain 0.6,
\* else its outro stinger with gain 0.6; sfx wins over intro over outro.
C21_ImpactTrack ==
    Mixed =>
        /\ CountLabels(ImpactLabels) <= 1
        /\ IF plan.sfx_file # None
           THEN TimedTrack("sfx_vol", plan.sfx_file, plan.sfx_timestamp, "0.8")
           ELSE IF plan.intro_stinger # None
           THEN TimedTrack("stinger_vol", plan.intro_stinger, None, "0.6")
           ELSE IF plan.outro_stinger # None
           THEN \E sd \in StingerDurations :
                    TimedTrack("stinger_vol", plan.outro_stinger,
                               <<Max(0, args.scene_duration - sd)>>, "0.6")
           ELSE CountLabels(ImpactLabels) = 0

\* C22: a plan's attack audio enters the mix at the plan's attack_timestamp
\* with gain -4 dB, whatever duck_bgm, the narration placement and the other
\* tracks are.
C22_AttackGain ==
    (Mixed /\ plan.attack_audio # None) =>
        TimedTrack("attack_vol", plan.attack_audio, plan.attack_timestamp, "-4dB")

C22_Witness ==
    /\ Mixed /\ plan.attack_audio # None
    /\ narration_file # None /\ plan.narration_placement = "over"
    /\ InSeq("bgm_ducked", mix.audio_inputs)
    /\ InSeq("sfx_vol", mix.audio_inputs)
    /\ InSeq("attack_vol", mix.audio_inputs)

\* the place of a track in the final mix: dialogue, background, impact, attack
TrackRank(label) ==
    IF label \in DialogueTrackLabels THEN 1
    ELSE IF label \in BackgroundLabels THEN 2
    ELSE IF label \in ImpactLabels THEN 3
    ELSE IF label = "attack_vol" THEN 4
    ELSE 5

\* what -map is given resolves: a bracketed label to a filter output, a bare
\* one to an audio stream of an input
MapDefined ==
    IF mix.audio_map.bracketed
    THEN \E i \in 1..Len(mix.filter_parts) :
             mix.filter_parts[i].out = mix.audio_map.label
    ELSE \E k \in 1..(Len(mix.inputs) - 1) : mix.audio_map.label = InputLabel(k)

\* C23: the final downmix reads exactly the added tracks, each once, in the
\* order dialogue/narration, background, impact, attack, with duration =
\* longest and one gain of 1.0; a single added track is itself the output,
\* under a label that the filter graph or the inputs define.
C23_FinalDownmix ==
    Mixed =>
        /\ Len(mix.audio_inputs) >= 1
        /\ \A i \in 1..(Len(mix.audio_inputs) - 1) :
               TrackRank(mix.audio_inputs[i]) < TrackRank(mix.audio_inputs[i + 1])
        /\ TrackRank(mix.audio_inputs[Len(mix.audio_inputs)]) <= 4
        /\ IF Len(mix.audio_inputs) > 1
           THEN /\ mix.filter_parts[Len(mix.filter_parts)] =
                       Filter("amix:duration=longest:dropout_transition=0,volume",
                              mix.audio_inputs, "final_audio", "1.0", None)
                /\ \A i \in 1..(Len(mix.filter_parts) - 1) :
                       mix.filter_parts[i].out # "final_audio"
                /\ mix.audio_map = [label |-> "final_audio", bracketed |-> TRUE]
           ELSE mix.audio_map.label = mix.audio_inputs[1]
        /\ MapDefined

\* C24: with a narration handle supplied exactly when the placement is not
\* none, the number of tracks fed into the final mix is the plan's
\* layer_count.
C24_TracksAreLayers ==
    (Mixed /\ (narration_file # None <=> plan.narration_placement # "none")) =>
        Len(mix.audio_inputs) = plan.layer_count

\* C25: sfx_file is set iff sfx_timestamp is, and attack_audio is set iff
\* attack_timestamp is.
C25_TimedSlots ==
    Returned =>
        /\ plan.sfx_file # None <=> plan.sfx_timestamp # None
        /\ plan.attack_audio # None <=> plan.attack_timestamp # None

\* C26: character_audio_fallback = true implies attack_audio is none and a
\* generic sfx with its timestamp is in the plan.
C26_FallbackPlaysSfx ==
    (Returned /\ plan.character_audio_fallback) =>
        /\ plan.attack_audio = None
        /\ plan.sfx_file # None
        /\ plan.sfx_timestamp # None

\* the slot asset validation leaves for a requested path
Validated(requested, path) ==
    IF requested /\ path # None /\ path \in fs THEN path ELSE None

\* the layers added after layer accounting: attack audio or its sfx fallback
CharacterLayers ==
    CountIf(plan.attack_audio # None
            \/ (plan.character_audio_fallback /\ plan.sfx_file # None))

\* C27: the base layer list never exceeds 3 entries and nothing is trimmed:
\* the stingers stay as asset validation set them, and sfx, bgm and ambience
\* are kept, except ambience dropped when bgm is present.
C27_NoTrimming ==
    Returned =>
        /\ plan.layer_count - CharacterLayers <= 3
        /\ plan.intro_stinger =
               Validated(Get(args.audio_intent, "intro_stinger", FALSE),
                         STINGER_MAP["intro"])
        /\ plan.outro_stinger =
               Validated(Get(args.audio_intent, "outro_stinger", FALSE),
                         STINGER_MAP["outro"])
        /\ plan.bgm_file = Validated(~UseSilence, RequestedBgm)
        /\ plan.ambience_file =
               (IF plan.bgm_file # None THEN None
                ELSE Validated(~UseSilence, RequestedAmbience))
        /\ Validated(args.confidence >= 60, RequestedSfx) # None =>
               plan.sfx_file = RequestedSfx

C27_Witness ==
    /\ Returned /\ plan.layer_count = 3
    /\ plan.bgm_file # None /\ plan.sfx_file # None
    /\ plan.intro_stinger # None /\ plan.outro_stinger # None
    /\ RequestedAmbience \in fs

\* C28: a scene whose plan has a narration placement other than none is
\* mixed with a narration track handed over by the pipeline, arranged by
\* that placement.
C28_NarrationHanded ==
    (Mixed /\ plan.narration_placement # "none") =>
        /\ narration_file # None
        /\ \E k \in 1..Len(mix.inputs) : mix.inputs[k].file = narration_file
        /\ PlacedTrack

\* C29: a scene whose analysis is the error fallback is still compiled and
\* mixed, nothing is raised, and the run ends with one clip per scene in
\* scene order.
C29_ReasoningFailureTolerated ==
    /\ (scene_analysis = error_result /\ pc # "analyzed") =>
           /\ pc \in {"compiled", "mixed", "loop", "done"}
           /\ raised = None
    /\ pc = "done" =>
           scene_clips = [k \in 1..Len(scenes) |-> FinalClipPath(k - 1)]

\* the message names an out-of-memory condition: as written, in any case
IsOomLiteral(e) == Contains(e.message, OutOfMemory)

IsOomAnyCase(e) ==
    \E k \in 0..(Len(e.message) - 3) :
        /\ e.message[k + 1] \in {"out", "Out", "OUT"}
        /\ e.message[k + 2] \in {"of", "Of", "OF"}
        /\ e.message[k + 3] \in {"memory", "Memory", "MEMORY"}

GuardDone == pc \in {"returned", "raised"}

\* the guard's contract, for a given reading of 'out of memory'
GuardContract(IsOom(_)) ==
    /\ invocations <= 3
    /\ \A k \in 1..(invocations - 1) :
           func[k].kind = "raise" /\ IsOom(func[k])
    /\ cache_clears =
           Cardinality({k \in 1..invocations :
                           func[k].kind = "raise" /\ IsOom(func[k])})
    /\ pc = "guard" =>
           /\ invocations < 3
           /\ result = None /\ raised = None
    /\ pc = "returned" =>
           /\ func[invocations].kind = "return"
           /\ result = <<func[invocations].value>>
           /\ raised = None
    /\ pc = "raised" =>
           /\ func[invocations].kind = "raise"
           /\ raised = <<Exception(func[invocations])>>
           /\ result = None
           /\ IsOom(func[invocations]) => invocations = 3

\* C30 (as stated): at most 3 invocations; the first success is returned; an
\* exception whose message does not contain 'out of memory' is re-raised at
\* once; one that does is retried after clearing the cache and re-raised
\* when the third invocation fails; never neither result nor exception.
C30_Original == GuardContract(IsOomLiteral)

\* C30 (amended): the same with 'out of memory' matched in any letter case,
\* and the call always ends.
C30_GuardTerminates ==
    /\ [](GuardContract(IsOomAnyCase))
    /\ <>GuardDone

C30_Witness ==
    /\ pc = "raised" /\ invocations = 3 /\ cache_clears = 3
    /\ ~IsOomLiteral(func[1])
    /\ raised = <<Exception(func[3])>>

====
